---- MODULE Spec2Model ----
(***************************************************************************)
(* State-machine model of the loan-application generators:                 *)
(*   src/loan_generator_kafka.py  KafkaLoanGenerator (store + Kafka)       *)
(*   src/loan_generator.py        LoanApplicationGenerator (store only)    *)
(*                                                                         *)
(* One process runs main(): it picks a run (batch or streaming) from the   *)
(* menu and the run executes statement by statement.  Cancellation is the  *)
(* control of the streaming run: a KeyboardInterrupt (Ctrl+C) may be       *)
(* delivered between any two statements of the loop of                     *)
(* generate_and_stream.                                                    *)
(***************************************************************************)
EXTENDS Integers, Sequences, FiniteSets, TLC

----------------------------------------------------------------------------
(* Bounds of the model *)

\* number of distinct loan_id tokens uuid4().hex[:8] can yield
MaxLoanIds == 2
\* applications generated by one process
MaxGenerated == 2
\* largest num_records typed at the menu
MaxRecords == 2
\* largest reading of the wall clock (ticks within the day)
MaxClock == 1
\* random.randint(a, b) is sampled at most this far from a and from b
ProfileDraw == 3
\* records of the longest batch beyond two flush periods
LongExtra == 1

----------------------------------------------------------------------------
(* Program constants *)

SuspiciousIncomeLo == 15000
SuspiciousIncomeHi == 35000
NormalIncomeLo == 40000
NormalIncomeHi == 120000
MaxDaysAgo == 90
FlushEvery == 100

VARIABLES
  pc,                \* position of the process in main() / the current run
  mode,              \* the run chosen last: "none", "batch", "stream"
  outcome,           \* how that run stands: running / aborted / completed / cancelled / raised
  error,             \* the exception that propagated out of the run, or "none"
  interrupted,       \* a KeyboardInterrupt was delivered to the run
  producer,          \* self.producer
  table,             \* rows of loan_applications, in insertion order
  bus,               \* messages accepted by producer.produce, in order
  app,               \* the loop's current application dict
  kafka_success,     \* local of generate_and_stream
  num_records,       \* parameter of batch_send_historical_data
  i,                 \* loop index of batch_send_historical_data
  sent_count,        \* local of batch_send_historical_data
  fraud_count,       \* local of batch_send_historical_data
  applications_sent, \* local of generate_and_stream
  fraud_detected,    \* local of generate_and_stream
  out,               \* lines printed by the current run
  clock,             \* last reading of datetime.now()
  generated,         \* applications generated so far by the process
  connects,          \* calls of setup_kafka_producer in the current run
  flushes,           \* calls of producer.flush in the current run
  unflushed,         \* messages produced since the last flush
  polls,             \* calls of producer.poll in the current run
  profile,           \* last result of generate_customer_profile
  events,            \* what the current run did, in order
  inflight,          \* keys of the produced messages the broker has not answered
  acked,             \* delivery reports waiting for poll or flush to serve them
  applications,      \* local list of generate_historical_data
  txn,               \* rows inserted by the open, uncommitted transaction
  scenario           \* what the environment may do: "short" or "long"

vars == <<pc, mode, outcome, error, interrupted, producer, table, bus, app,
          kafka_success, num_records, i, sent_count, fraud_count,
          applications_sent, fraud_detected, out, clock, generated, connects,
          flushes, unflushed, polls, profile, events, inflight, acked,
          applications, txn, scenario>>

----------------------------------------------------------------------------
(* Random draws and arithmetic *)

LoanIds == 1..MaxLoanIds

\* random.randint(a, b): both ends included; sampled near the two ends
RandInt(a, b, w) == {x \in a..b : x - a <= w \/ b - x <= w}

\* random.randint(1, 90) for days_ago, sampled at its two ends
DaysAgo == {1, MaxDaysAgo}

\* the mutant of IntTenths: rounds up instead of truncating
IntTenthsCeil(income, tenths) == (income * tenths + 9) \div 10

\* int(income * 0.8): truncation of the product with a one-decimal factor
IntTenths(income, tenths) == (income * tenths) \div 10

NoProfile == [is_fraud |-> 0, annual_income |-> 0, loan_amount |-> 0]

\* generate_customer_profile: the profiles one call can return
SuspiciousProfiles ==
  UNION {{[is_fraud |-> 1, annual_income |-> income, loan_amount |-> amount] :
            amount \in RandInt(IntTenths(income, 8), IntTenths(income, 25), ProfileDraw)} :
         income \in RandInt(SuspiciousIncomeLo, SuspiciousIncomeHi, ProfileDraw)}

NormalProfiles ==
  UNION {{[is_fraud |-> 0, annual_income |-> income, loan_amount |-> amount] :
            amount \in RandInt(IntTenths(income, 1), IntTenths(income, 6), ProfileDraw)} :
         income \in RandInt(NormalIncomeLo, NormalIncomeHi, ProfileDraw)}

generate_customer_profile == SuspiciousProfiles \cup NormalProfiles

\* the values of profile['is_fraud'] a call can return
FraudFlags == {p.is_fraud : p \in generate_customer_profile}

----------------------------------------------------------------------------
(* Instants *)

\* datetime.now() read when the clock shows tick t: <<day relative to today, tick>>
Now(t) == <<0, t>>

\* dt - timedelta(days=d)
MinusDays(dt, d) == <<dt[1] - d, dt[2]>>

\* datetime.isoformat(): date, "T", time of day
IsoFormat(dt) == <<dt[1], "T", dt[2]>>

----------------------------------------------------------------------------
(* Applications and rows *)

NoApp == [loan_id |-> 0, customer_id |-> 0, application_timestamp |-> <<>>,
          is_fraud |-> 0, created_at |-> <<>>, updated_at |-> <<>>]

\* generate_loan_application: the three datetime.now() calls read t1, t2, t3.
\* customer_id is modelled as the serial number of the application.
generate_loan_application(lid, cid, fraud, t1, t2, t3) ==
  [loan_id |-> lid, customer_id |-> cid,
   application_timestamp |-> IsoFormat(Now(t1)),
   is_fraud |-> fraud,
   created_at |-> IsoFormat(Now(t2)),
   updated_at |-> IsoFormat(Now(t3))]

\* lines 276-281 of batch_send_historical_data: make the application historical
MakeHistorical(a, days_ago, t) ==
  LET historical_time == MinusDays(Now(t), days_ago) IN
  [a EXCEPT !.application_timestamp = IsoFormat(historical_time),
            !.created_at = IsoFormat(historical_time),
            !.updated_at = IsoFormat(historical_time)]

\* a Python bool bound to a SQLite BOOLEAN column is stored as 1 or 0
SqliteBool(b) == IF b THEN 1 ELSE 0

Row(a, kafka_sent) ==
  [loan_id |-> a.loan_id, customer_id |-> a.customer_id,
   application_timestamp |-> a.application_timestamp,
   is_fraud |-> a.is_fraud, created_at |-> a.created_at,
   updated_at |-> a.updated_at, kafka_sent |-> SqliteBool(kafka_sent)]

HasLoanId(tbl, lid) == \E k \in 1..Len(tbl) : tbl[k].loan_id = lid

\* mutant of store_locally: INSERT OR REPLACE overwrites the existing row
store_locally_replace(tbl, a, kafka_sent) ==
  IF HasLoanId(tbl, a.loan_id)
  THEN [table |-> [k \in 1..Len(tbl) |->
                     IF tbl[k].loan_id = a.loan_id THEN Row(a, kafka_sent) ELSE tbl[k]],
        raised |-> FALSE]
  ELSE [table |-> Append(tbl, Row(a, kafka_sent)), raised |-> FALSE]

\* mutant of store_locally: INSERT OR IGNORE drops the duplicate silently
store_locally_ignore(tbl, a, kafka_sent) ==
  IF HasLoanId(tbl, a.loan_id)
  THEN [table |-> tbl, raised |-> FALSE]
  ELSE [table |-> Append(tbl, Row(a, kafka_sent)), raised |-> FALSE]

\* store_locally: INSERT into a table whose loan_id is the PRIMARY KEY, then commit
store_locally(tbl, a, kafka_sent) ==
  IF HasLoanId(tbl, a.loan_id)
  THEN [table |-> tbl, raised |-> TRUE]
  ELSE [table |-> Append(tbl, Row(a, kafka_sent)), raised |-> FALSE]

----------------------------------------------------------------------------
(* The Kafka producer *)

\* mutant of setup_kafka_producer: reports the failure and returns True
setup_kafka_producer_true(prod, raises) ==
  IF raises
  THEN [ret |-> TRUE, producer |-> prod, printed |-> {"Failed to initialize Kafka producer"}]
  ELSE [ret |-> TRUE, producer |-> "Producer", printed |-> {"Kafka producer initialized"}]

\* setup_kafka_producer: Producer(config) either raises or yields a producer
setup_kafka_producer(prod, raises) ==
  IF raises
  THEN [ret |-> FALSE, producer |-> prod, printed |-> {"Failed to initialize Kafka producer"}]
  ELSE [ret |-> TRUE, producer |-> "Producer", printed |-> {"Kafka producer initialized"}]

\* mutant of send_to_kafka: the except branch returns True
send_to_kafka_true(a, raises) ==
  IF raises
  THEN [ret |-> TRUE, raised |-> FALSE, produced |-> <<>>, polls |-> 0]
  ELSE [ret |-> TRUE, raised |-> FALSE,
        produced |-> <<[key |-> a.customer_id, value |-> a]>>, polls |-> 1]

\* mutant of send_to_kafka: poll(0) is left out
send_to_kafka_no_poll(a, raises) ==
  IF raises
  THEN [ret |-> FALSE, raised |-> FALSE, produced |-> <<>>, polls |-> 0]
  ELSE [ret |-> TRUE, raised |-> FALSE,
        produced |-> <<[key |-> a.customer_id, value |-> a]>>, polls |-> 0]

\* send_to_kafka: produce (which may raise), then poll(0); any Exception is
\* caught and turned into the return value False.  The message value stands
\* for json.dumps(application); nothing in the repository parses it back.
send_to_kafka(a, raises) ==
  IF raises
  THEN [ret |-> FALSE, raised |-> FALSE, produced |-> <<>>, polls |-> 0]
  ELSE [ret |-> TRUE, raised |-> FALSE,
        produced |-> <<[key |-> a.customer_id, value |-> a]>>, polls |-> 1]

Published(cid) == \E k \in 1..Len(bus) : bus[k].key = cid

\* one entry of the log of the run: the operation, the customer_id it
\* concerns (0 for none) and whether it succeeded
Event(op, rec, ok) == [op |-> op, rec |-> rec, ok |-> ok]

\* mutant of delivery_report: reconciles kafka_sent of the stored row
delivery_report_reconcile(tbl, err, key) ==
  [table |-> [k \in 1..Len(tbl) |->
                IF tbl[k].customer_id = key
                THEN [tbl[k] EXCEPT !.kafka_sent = SqliteBool(~err)]
                ELSE tbl[k]],
   printed |-> {IF err THEN "Message delivery failed" ELSE "Message delivered"}]

\* delivery_report(err, msg): prints the outcome of the message with this key
delivery_report(tbl, err, key) ==
  [table |-> tbl,
   printed |-> {IF err THEN "Message delivery failed" ELSE "Message delivered"}]

\* the callbacks of the reports in q, called in order (the first half of
\* the queue, then the second half on the table the first half left)
RECURSIVE ServeCallbacks(_, _)
ServeCallbacks(tbl, q) ==
  IF q = <<>>
  THEN [table |-> tbl, printed |-> {}, events |-> <<>>]
  ELSE IF Len(q) = 1
       THEN LET r == delivery_report(tbl, q[1].err, q[1].key)
            IN [table |-> r.table,
                printed |-> r.printed,
                events |-> <<Event("callback", q[1].key, ~q[1].err)>>]
       ELSE LET half == Len(q) \div 2
                first == ServeCallbacks(tbl, SubSeq(q, 1, half))
                rest == ServeCallbacks(first.table, SubSeq(q, half + 1, Len(q)))
            IN [events |-> first.events \o rest.events,
                printed |-> first.printed \cup rest.printed,
                table |-> rest.table]

\* producer.poll(0): serves the delivery reports that have arrived
poll(tbl, ackd) ==
  LET c == ServeCallbacks(tbl, ackd) IN
  [c EXCEPT !.events = <<Event("poll", 0, TRUE)>> \o c.events]

\* producer.flush(): waits for the report of every message in flight (errs
\* are their error flags) and serves all reports
flush(tbl, infl, ackd, errs) ==
  LET waited == [k \in 1..Len(infl) |-> [key |-> infl[k], err |-> errs[k]]]
      c == ServeCallbacks(tbl, ackd \o waited)
  IN [c EXCEPT !.events = <<Event("flush", 0, TRUE)>> \o c.events]

\* mutant of FlushDue: the period is off by one
FlushDueLate(n) == n % (FlushEvery + 1) = 0

\* line 293: (i + 1) % 100 == 0
FlushDue(n) == n % FlushEvery = 0

----------------------------------------------------------------------------
(* Initial state: KafkaLoanGenerator() has run setup_database *)

InitProcess ==
  /\ pc = "menu"
  /\ mode = "none"
  /\ outcome = "none"
  /\ error = "none"
  /\ interrupted = FALSE
  /\ producer = "None"
  /\ table = <<>>
  /\ bus = <<>>
  /\ app = NoApp
  /\ kafka_success = FALSE
  /\ num_records = 0
  /\ i = 0
  /\ sent_count = 0
  /\ fraud_count = 0
  /\ applications_sent = 0
  /\ fraud_detected = 0
  /\ out = {}
  /\ generated = 0
  /\ connects = 0
  /\ flushes = 0
  /\ unflushed = 0
  /\ polls = 0
  /\ profile = NoProfile
  /\ events = <<>>
  /\ inflight = <<>>
  /\ acked = <<>>
  /\ applications = <<>>
  /\ txn = <<>>

\* the process runs within one tick of the clock: every datetime.now() reads
\* the same instant
Init == InitProcess /\ clock = MaxClock /\ scenario = "short"

\* the clock advances while the process runs
InitClock == InitProcess /\ clock = 0 /\ scenario = "short"

\* a long backfill: large counts, no loan_id collision, every profile
\* normal, every produce accepted and every delivery acknowledged
InitLong == InitProcess /\ clock = MaxClock /\ scenario = "long"

\* either generator, constructed over its own fresh database
InitBatch == InitProcess /\ clock = MaxClock /\ scenario \in {"short", "store"}

----------------------------------------------------------------------------
(* What the environment may do *)

\* num_records typed at the menu
NumRecordsChoices ==
  IF scenario = "long"
  THEN {FlushEvery - 1, FlushEvery, FlushEvery + 1, 2 * FlushEvery + LongExtra}
  ELSE 0..MaxRecords

\* applications one process generates
GeneratedCap ==
  IF scenario = "long" THEN 2 * FlushEvery + LongExtra ELSE MaxGenerated

\* uuid4().hex[:8]: any token, or in the long run a token not used before
LoanIdChoices == IF scenario = "long" THEN {generated + 1} ELSE LoanIds

FraudChoices == IF scenario = "long" THEN {0} ELSE FraudFlags

DaysAgoChoices == IF scenario = "long" THEN {1} ELSE DaysAgo

\* whether producer.produce raises
ProduceRaises == IF scenario = "long" THEN {FALSE} ELSE BOOLEAN

\* the error flags of the delivery reports of n messages
ErrChoices(n) ==
  IF scenario = "long" THEN {[k \in 1..n |-> FALSE]} ELSE [1..n -> BOOLEAN]

----------------------------------------------------------------------------
(* main(): the menu *)

\* the statements inside the try block of generate_and_stream
TryPcs == {"s_gen", "s_send", "s_store", "s_count", "s_fraud", "s_sleep"}

\* a fresh call frame: the locals and the per-run observations start over
ResetLocals ==
  /\ app' = NoApp
  /\ kafka_success' = FALSE
  /\ i' = 0
  /\ sent_count' = 0
  /\ fraud_count' = 0
  /\ applications_sent' = 0
  /\ fraud_detected' = 0
  /\ out' = {}
  /\ connects' = 0
  /\ flushes' = 0
  /\ polls' = 0
  /\ interrupted' = FALSE
  /\ events' = <<>>

\* an exception leaves the run; main() does not catch it
Raise(e) ==
  /\ pc' = "crashed"
  /\ outcome' = "raised"
  /\ error' = e

\* choice "1": generator.batch_send_historical_data(num_records)
ChooseBatch ==
  /\ pc = "menu"
  /\ scenario # "store"
  /\ \E n \in NumRecordsChoices : num_records' = n
  /\ pc' = "b_setup"
  /\ mode' = "batch"
  /\ outcome' = "running"
  /\ ResetLocals
  /\ UNCHANGED <<error, producer, table, bus, clock, generated, unflushed,
                 profile, inflight, acked, applications, txn, scenario>>

\* choice "2": generator.generate_and_stream(interval)
ChooseStream ==
  /\ pc = "menu"
  /\ scenario # "store"
  /\ pc' = "s_setup"
  /\ mode' = "stream"
  /\ outcome' = "running"
  /\ ResetLocals
  /\ UNCHANGED <<error, producer, table, bus, clock, generated, unflushed,
                 profile, num_records, inflight, acked, applications, txn,
                 scenario>>

----------------------------------------------------------------------------
(* batch_send_historical_data *)

\* lines 264-270: connect or return
BatchSetup ==
  /\ pc = "b_setup"
  /\ \E raises \in BOOLEAN :
       LET r == setup_kafka_producer(producer, raises) IN
       /\ producer' = r.producer
       /\ connects' = connects + 1
       /\ IF r.ret
          THEN /\ pc' = "b_loop"
               /\ out' = out \cup r.printed \cup {"Sending historical records"}
               /\ unflushed' = 0
               /\ inflight' = <<>>
               /\ acked' = <<>>
               /\ UNCHANGED outcome
          ELSE /\ pc' = "menu"
               /\ out' = out \cup r.printed
               /\ outcome' = "aborted"
               /\ UNCHANGED <<unflushed, inflight, acked>>
  /\ UNCHANGED <<mode, error, interrupted, table, bus, app, kafka_success,
                 num_records, i, sent_count, fraud_count, applications_sent,
                 fraud_detected, clock, generated, flushes, polls, profile,
                 events, applications, txn, scenario>>

\* lines 272-281: the for header, generate_loan_application, backdating
BatchLoop ==
  /\ pc = "b_loop"
  /\ IF i < num_records
     THEN /\ generated < GeneratedCap
          /\ \E lid \in LoanIdChoices, fraud \in FraudChoices,
                days_ago \in DaysAgoChoices,
                t1 \in clock..MaxClock :
               \E t2 \in t1..MaxClock : \E t3 \in t2..MaxClock : \E t4 \in t3..MaxClock :
                 /\ app' = MakeHistorical(
                             generate_loan_application(lid, generated + 1, fraud, t1, t2, t3),
                             days_ago, t4)
                 /\ clock' = t4
          /\ generated' = generated + 1
          /\ events' = Append(events, Event("generate", generated + 1, TRUE))
          /\ pc' = "b_send"
     ELSE /\ pc' = "b_finish"
          /\ UNCHANGED <<app, clock, generated, events>>
  /\ UNCHANGED <<mode, outcome, error, interrupted, producer, table, bus,
                 kafka_success, num_records, i, sent_count, fraud_count,
                 applications_sent, fraud_detected, out, connects, flushes,
                 unflushed, polls, profile, inflight, acked, applications,
                 txn, scenario>>

\* what one call of send_to_kafka does to the producer, the bus and the log
SendEffects(r) ==
  LET served == IF r.polls > 0
                THEN poll(table, acked)
                ELSE [table |-> table, printed |-> {}, events |-> <<>>]
  IN /\ bus' = bus \o r.produced
     /\ polls' = polls + r.polls
     /\ unflushed' = unflushed + Len(r.produced)
     /\ inflight' = inflight \o [k \in 1..Len(r.produced) |-> r.produced[k].key]
     /\ acked' = IF r.polls > 0 THEN <<>> ELSE acked
     /\ table' = served.table
     /\ out' = out \cup served.printed
                   \cup (IF r.ret THEN {} ELSE {"Failed to send to Kafka"})
     /\ events' = events
                    \o <<Event("produce", app.customer_id, Len(r.produced) > 0)>>
                    \o served.events

\* lines 283-288: send_to_kafka and the two counters
BatchSend ==
  /\ pc = "b_send"
  /\ \E raises \in ProduceRaises :
       LET r == send_to_kafka(app, raises) IN
       IF r.raised
       THEN /\ Raise("KafkaException")
            /\ UNCHANGED <<bus, polls, unflushed, sent_count, fraud_count,
                           inflight, acked, table, out, events>>
       ELSE /\ SendEffects(r)
            /\ sent_count' = IF r.ret THEN sent_count + 1 ELSE sent_count
            /\ fraud_count' = IF app.is_fraud = 1 THEN fraud_count + 1 ELSE fraud_count
            /\ pc' = "b_store"
            /\ UNCHANGED <<outcome, error>>
  /\ UNCHANGED <<mode, interrupted, producer, app, kafka_success,
                 num_records, i, applications_sent, fraud_detected, clock,
                 generated, connects, flushes, profile, applications, txn,
                 scenario>>

\* what one call of producer.flush() does, after the events evs of the step
FlushEffects(tbl, evs) ==
  \E errs \in ErrChoices(Len(inflight)) :
    LET f == flush(tbl, inflight, acked, errs) IN
    /\ table' = f.table
    /\ out' = out \cup f.printed \cup evs.printed
    /\ events' = events \o evs.events \o f.events
    /\ inflight' = <<>>
    /\ acked' = <<>>
    /\ flushes' = flushes + 1
    /\ unflushed' = 0

\* lines 290-295: store_locally(app, True), then the flush of every 100th record
BatchStore ==
  /\ pc = "b_store"
  /\ LET r == store_locally(table, app, TRUE)
         ev == Event("insert", app.customer_id, ~r.raised)
     IN
     IF r.raised
     THEN /\ table' = r.table
          /\ events' = Append(events, ev)
          /\ Raise("IntegrityError")
          /\ UNCHANGED <<i, out, flushes, unflushed, inflight, acked>>
     ELSE /\ IF FlushDue(i + 1)
             THEN FlushEffects(r.table, [printed |-> {"Sent records"}, events |-> <<ev>>])
             ELSE /\ table' = r.table
                  /\ events' = Append(events, ev)
                  /\ UNCHANGED <<out, flushes, unflushed, inflight, acked>>
          /\ i' = i + 1
          /\ pc' = "b_loop"
          /\ UNCHANGED <<outcome, error>>
  /\ UNCHANGED <<mode, interrupted, producer, bus, app, kafka_success,
                 num_records, sent_count, fraud_count, applications_sent,
                 fraud_detected, clock, generated, connects, polls, profile,
                 applications, txn, scenario>>

\* lines 297-301: the final flush and the two summary lines; the second
\* divides by num_records
BatchFinish ==
  /\ pc = "b_finish"
  /\ IF num_records = 0
     THEN /\ FlushEffects(table, [printed |-> {"Batch complete"}, events |-> <<>>])
          /\ Raise("ZeroDivisionError")
     ELSE /\ FlushEffects(table, [printed |-> {"Batch complete", "Fraud records"},
                                  events |-> <<>>])
          /\ pc' = "menu"
          /\ outcome' = "completed"
          /\ UNCHANGED error
  /\ UNCHANGED <<mode, interrupted, producer, bus, app, kafka_success,
                 num_records, i, sent_count, fraud_count, applications_sent,
                 fraud_detected, clock, generated, connects, polls, profile,
                 applications, txn, scenario>>

----------------------------------------------------------------------------
(* generate_and_stream *)

\* lines 213-223: connect or return, then the banner and the two counters
StreamSetup ==
  /\ pc = "s_setup"
  /\ \E raises \in BOOLEAN :
       LET r == setup_kafka_producer(producer, raises) IN
       /\ producer' = r.producer
       /\ connects' = connects + 1
       /\ IF r.ret
          THEN /\ pc' = "s_gen"
               /\ out' = out \cup r.printed \cup {"Starting real-time streaming"}
               /\ unflushed' = 0
               /\ inflight' = <<>>
               /\ acked' = <<>>
               /\ UNCHANGED outcome
          ELSE /\ pc' = "menu"
               /\ out' = out \cup r.printed \cup {"Cannot start streaming"}
               /\ outcome' = "aborted"
               /\ UNCHANGED <<unflushed, inflight, acked>>
  /\ UNCHANGED <<mode, error, interrupted, table, bus, app, kafka_success,
                 num_records, i, sent_count, fraud_count, applications_sent,
                 fraud_detected, clock, generated, flushes, polls, profile,
                 events, applications, txn, scenario>>

\* line 228: application = self.generate_loan_application()
StreamGenerate ==
  /\ pc = "s_gen"
  /\ generated < GeneratedCap
  /\ \E lid \in LoanIdChoices, fraud \in FraudChoices, t1 \in clock..MaxClock :
       \E t2 \in t1..MaxClock : \E t3 \in t2..MaxClock :
         /\ app' = generate_loan_application(lid, generated + 1, fraud, t1, t2, t3)
         /\ clock' = t3
  /\ generated' = generated + 1
  /\ events' = Append(events, Event("generate", generated + 1, TRUE))
  /\ pc' = "s_send"
  /\ UNCHANGED <<mode, outcome, error, interrupted, producer, table, bus,
                 kafka_success, num_records, i, sent_count, fraud_count,
                 applications_sent, fraud_detected, out, connects, flushes,
                 unflushed, polls, profile, inflight, acked, applications,
                 txn, scenario>>

\* line 231: kafka_success = self.send_to_kafka(application)
StreamSend ==
  /\ pc = "s_send"
  /\ \E raises \in ProduceRaises :
       LET r == send_to_kafka(app, raises) IN
       IF r.raised
       THEN /\ Raise("KafkaException")
            /\ UNCHANGED <<bus, polls, unflushed, kafka_success, inflight,
                           acked, table, out, events>>
       ELSE /\ SendEffects(r)
            /\ kafka_success' = r.ret
            /\ pc' = "s_store"
            /\ UNCHANGED <<outcome, error>>
  /\ UNCHANGED <<mode, interrupted, producer, app, num_records, i,
                 sent_count, fraud_count, applications_sent, fraud_detected,
                 clock, generated, connects, flushes, profile, applications,
                 txn, scenario>>

\* line 234: self.store_locally(application, kafka_success)
StreamStore ==
  /\ pc = "s_store"
  /\ LET r == store_locally(table, app, kafka_success) IN
     /\ table' = r.table
     /\ events' = Append(events, Event("insert", app.customer_id, ~r.raised))
     /\ IF r.raised
        THEN Raise("IntegrityError")
        ELSE /\ pc' = "s_count"
             /\ UNCHANGED <<outcome, error>>
  /\ UNCHANGED <<mode, interrupted, producer, bus, app, kafka_success,
                 num_records, i, sent_count, fraud_count, applications_sent,
                 fraud_detected, out, clock, generated, connects, flushes,
                 unflushed, polls, profile, inflight, acked, applications,
                 txn, scenario>>

\* line 237: applications_sent += 1
StreamCount ==
  /\ pc = "s_count"
  /\ applications_sent' = applications_sent + 1
  /\ pc' = "s_fraud"
  /\ UNCHANGED <<mode, outcome, error, interrupted, producer, table, bus, app,
                 kafka_success, num_records, i, sent_count, fraud_count,
                 fraud_detected, out, clock, generated, connects, flushes,
                 unflushed, polls, profile, events, inflight, acked,
                 applications, txn, scenario>>

\* lines 238-248: fraud_detected and the status line
StreamFraud ==
  /\ pc = "s_fraud"
  /\ fraud_detected' = IF app.is_fraud = 1 THEN fraud_detected + 1 ELSE fraud_detected
  /\ out' = out \cup {IF kafka_success THEN "SENT" ELSE "FAILED"}
  /\ pc' = "s_sleep"
  /\ UNCHANGED <<mode, outcome, error, interrupted, producer, table, bus, app,
                 kafka_success, num_records, i, sent_count, fraud_count,
                 applications_sent, clock, generated, connects, flushes,
                 unflushed, polls, profile, events, inflight, acked,
                 applications, txn, scenario>>

\* line 250: time.sleep(interval_seconds), then the next iteration
StreamSleep ==
  /\ pc = "s_sleep"
  /\ pc' = "s_gen"
  /\ UNCHANGED <<mode, outcome, error, interrupted, producer, table, bus, app,
                 kafka_success, num_records, i, sent_count, fraud_count,
                 applications_sent, fraud_detected, out, clock, generated,
                 connects, flushes, unflushed, polls, profile, events,
                 inflight, acked, applications, txn, scenario>>

\* Ctrl+C while the try block runs: control moves to the except clause.
\* send_to_kafka catches Exception only, which KeyboardInterrupt is not.
KeyboardInterruptInTry ==
  /\ pc \in TryPcs
  /\ pc' = "s_except"
  /\ interrupted' = TRUE
  /\ UNCHANGED <<mode, outcome, error, producer, table, bus, app,
                 kafka_success, num_records, i, sent_count, fraud_count,
                 applications_sent, fraud_detected, out, clock, generated,
                 connects, flushes, unflushed, polls, profile, events,
                 inflight, acked, applications, txn, scenario>>

\* lines 252-259: the summary, whose last line divides by applications_sent,
\* then producer.flush()
StreamExcept ==
  /\ pc = "s_except"
  /\ IF applications_sent = 0
     THEN /\ out' = out \cup {"Streaming stopped", "Total applications sent",
                              "Fraud applications"}
          /\ Raise("ZeroDivisionError")
          /\ UNCHANGED <<flushes, unflushed, table, events, inflight, acked>>
     ELSE /\ FlushEffects(table, [printed |-> {"Streaming stopped",
                                                "Total applications sent",
                                                "Fraud applications", "Fraud rate"},
                                  events |-> <<>>])
          /\ pc' = "menu"
          /\ outcome' = "cancelled"
          /\ UNCHANGED error
  /\ UNCHANGED <<mode, interrupted, producer, bus, app, kafka_success,
                 num_records, i, sent_count, fraud_count, applications_sent,
                 fraud_detected, clock, generated, connects, polls, profile,
                 applications, txn, scenario>>

\* the broker answers the oldest message in flight: its delivery report,
\* with or without an error, waits for the next poll or flush
BrokerAck ==
  /\ pc \in TryPcs \cup {"b_loop", "b_send", "b_store", "b_finish"}
  /\ inflight # <<>>
  /\ \E err \in BOOLEAN :
       acked' = Append(acked, [key |-> Head(inflight), err |-> err])
  /\ inflight' = Tail(inflight)
  /\ UNCHANGED <<pc, mode, outcome, error, interrupted, producer, table, bus,
                 app, kafka_success, num_records, i, sent_count, fraud_count,
                 applications_sent, fraud_detected, out, clock, generated,
                 connects, flushes, unflushed, polls, profile, events,
                 applications, txn, scenario>>

----------------------------------------------------------------------------------------------------------------------------------------------------
(* loan_generator.py: generate_historical_data *)

\* mutant of executemany: a connection in autocommit mode, where every row
\* that was inserted before the failing one is already in the table
RECURSIVE executemany_autocommit(_, _, _)
executemany_autocommit(tbl, pending, rows) ==
  IF rows = <<>>
  THEN [table |-> tbl \o pending, txn |-> <<>>, raised |-> FALSE]
  ELSE IF HasLoanId(tbl \o pending, Head(rows).loan_id)
       THEN [table |-> tbl \o pending, txn |-> <<>>, raised |-> TRUE]
       ELSE executemany_autocommit(tbl, Append(pending, Head(rows)), Tail(rows))

\* cursor.executemany(INSERT ..., applications): the rows are inserted one
\* after another inside the connection's open transaction; the first
\* duplicate loan_id raises IntegrityError. The table is what is committed.
RECURSIVE executemany(_, _, _)
executemany(tbl, pending, rows) ==
  IF rows = <<>>
  THEN [table |-> tbl, txn |-> pending, raised |-> FALSE]
  ELSE IF HasLoanId(tbl \o pending, Head(rows).loan_id)
       THEN [table |-> tbl, txn |-> pending, raised |-> TRUE]
       ELSE executemany(tbl, Append(pending, Head(rows)), Tail(rows))

\* choice "1" of loan_generator.main: generator.generate_historical_data(num_records)
ChooseHistorical ==
  /\ pc = "menu"
  /\ scenario = "store"
  /\ \E n \in NumRecordsChoices : num_records' = n
  /\ pc' = "h_loop"
  /\ mode' = "historical"
  /\ outcome' = "running"
  /\ ResetLocals
  /\ applications' = <<>>
  /\ txn' = <<>>
  /\ UNCHANGED <<error, producer, table, bus, clock, generated, unflushed,
                 profile, inflight, acked, scenario>>

\* lines 177-189: generate, backdate, append the tuple to the list
HistLoop ==
  /\ pc = "h_loop"
  /\ i < num_records
  /\ generated < GeneratedCap
  /\ \E lid \in LoanIdChoices, fraud \in FraudChoices, days_ago \in DaysAgoChoices,
        t1 \in clock..MaxClock :
       \E t2 \in t1..MaxClock : \E t3 \in t2..MaxClock : \E t4 \in t3..MaxClock :
         /\ app' = MakeHistorical(
                     generate_loan_application(lid, generated + 1, fraud, t1, t2, t3),
                     days_ago, t4)
         /\ clock' = t4
  /\ applications' = Append(applications, app')
  /\ generated' = generated + 1
  /\ events' = Append(events, Event("generate", generated + 1, TRUE))
  /\ out' = IF FlushDue(i + 1) THEN out \cup {"Generated records"} ELSE out
  /\ i' = i + 1
  /\ UNCHANGED <<pc, mode, outcome, error, interrupted, producer, table, bus,
                 kafka_success, num_records, sent_count, fraud_count,
                 applications_sent, fraud_detected, connects, flushes,
                 unflushed, polls, profile, inflight, acked, txn, scenario>>

\* lines 191-196: one executemany over the whole list. main() catches
\* nothing, so IntegrityError ends the process with the transaction open
\* and SQLite discards it.
HistExecuteMany ==
  /\ pc = "h_loop"
  /\ i = num_records
  /\ LET r == executemany(table, <<>>, applications) IN
     /\ table' = r.table
     /\ txn' = r.txn
     /\ events' = events \o [k \in 1..Len(r.txn) |->
                               Event("insert", r.txn[k].customer_id, TRUE)]
     /\ IF r.raised
        THEN Raise("IntegrityError")
        ELSE /\ pc' = "h_commit"
             /\ UNCHANGED <<outcome, error>>
  /\ UNCHANGED <<mode, interrupted, producer, bus, app, kafka_success,
                 num_records, i, sent_count, fraud_count, applications_sent,
                 fraud_detected, out, clock, generated, connects, flushes,
                 unflushed, polls, profile, inflight, acked, applications,
                 scenario>>

\* lines 198-202: conn.commit(), close, the report and show_fraud_stats()
HistCommit ==
  /\ pc = "h_commit"
  /\ table' = table \o txn
  /\ txn' = <<>>
  /\ out' = out \cup {"Generated historical records", "DATABASE STATISTICS"}
  /\ pc' = "menu"
  /\ outcome' = "completed"
  /\ UNCHANGED <<mode, error, interrupted, producer, bus, app, kafka_success,
                 num_records, i, sent_count, fraud_count, applications_sent,
                 fraud_detected, clock, generated, connects, flushes,
                 unflushed, polls, profile, events, inflight, acked,
                 applications, scenario>>

----
(* The process *)

\* main() of loan_generator_kafka.py; no delivery report arrives before a flush
Next ==
  \/ ChooseBatch
  \/ ChooseStream
  \/ BatchSetup
  \/ BatchLoop
  \/ BatchSend
  \/ BatchStore
  \/ BatchFinish
  \/ StreamSetup
  \/ StreamGenerate
  \/ StreamSend
  \/ StreamStore
  \/ StreamCount
  \/ StreamFraud
  \/ StreamSleep
  \/ KeyboardInterruptInTry
  \/ StreamExcept

Spec == Init /\ [][Next]_vars

SpecClock == InitClock /\ [][Next]_vars

\* the same process with delivery reports arriving at any time
NextDelivery == Next \/ BrokerAck

SpecDelivery == Init /\ [][NextDelivery]_vars

\* backfills only, of the long scenario
NextLong ==
  \/ ChooseBatch
  \/ BatchSetup
  \/ BatchLoop
  \/ BatchSend
  \/ BatchStore
  \/ BatchFinish

SpecLong == InitLong /\ [][NextLong]_vars

\* the historical batch of loan_generator.py
NextHistorical ==
  \/ ChooseHistorical
  \/ HistLoop
  \/ HistExecuteMany
  \/ HistCommit

\* the batch runs of the two generators
NextBatch == NextLong \/ NextHistorical

SpecBatch == InitBatch /\ [][NextBatch]_vars

----
(* generate_customer_profile on its own: one call after another *)

SampleProfile ==
  /\ \E p \in generate_customer_profile : profile' = p
  /\ UNCHANGED <<pc, mode, outcome, error, interrupted, producer, table, bus,
                 app, kafka_success, num_records, i, sent_count, fraud_count,
                 applications_sent, fraud_detected, out, clock, generated,
                 connects, flushes, unflushed, polls, events, inflight, acked,
                 applications, txn, scenario>>

NextProfile == SampleProfile

SpecProfile == Init /\ [][NextProfile]_vars

----------------------------------------------------------------------------
(* Properties *)

LastRow == table[Len(table)]

Stored(cid) == \E k \in 1..Len(table) : table[k].customer_id = cid

UniqueLoanIds(tbl) ==
  \A j, k \in 1..Len(tbl) : j # k => tbl[j].loan_id # tbl[k].loan_id

\* the step is an INSERT of a loan_id the table already holds
DuplicateInsert ==
  /\ pc \in {"s_store", "b_store"}
  /\ pc' # "s_except"
  /\ HasLoanId(table, app.loan_id)

BatchSummary == {"Batch complete", "Fraud records"}

StreamSummary == {"Streaming stopped", "Total applications sent",
                  "Fraud applications", "Fraud rate"}

\* C1: in a batch run, a record whose publish attempt failed is persisted
\* with kafka_sent = false, and the failure raises nothing past the batch call.
C1_BatchFailedPublishStoredFalse ==
  /\ (mode = "batch" /\ pc = "b_loop" /\ i > 0 /\ ~Published(app.customer_id))
       => /\ Stored(app.customer_id)
          /\ LastRow.customer_id = app.customer_id
          /\ LastRow.kafka_sent = 0
  /\ (mode = "batch" => error # "KafkaException")

\* C2: a run that ends by normal completion (batch, any count >= 0) or by
\* cancellation (streaming) has printed its whole final summary.
C2_SummaryAlwaysEmitted ==
  /\ (mode = "batch" /\ pc \in {"menu", "crashed"} /\ outcome \in {"completed", "raised"}
        /\ error \notin {"IntegrityError", "KafkaException"})
       => BatchSummary \subseteq out
  /\ (mode = "stream" /\ interrupted /\ pc \in {"menu", "crashed"})
       => StreamSummary \subseteq out

\* C3: when generate_and_stream returns after a cancellation, every record
\* that was published has a row in the store.
C3_PublishedRecordsStored ==
  (mode = "stream" /\ outcome = "cancelled")
    => \A k \in 1..Len(bus) : Stored(bus[k].key)

\* C4: in a streaming run, a record whose publish attempt raised is inserted
\* with kafka_sent = false, and the failure never ends the run.
C4_PublishFailureRecorded ==
  /\ error # "KafkaException"
  /\ (mode = "stream" /\ pc = "s_store" /\ ~Published(app.customer_id))
       => (kafka_success = FALSE /\ outcome = "running")
  /\ (mode = "stream" /\ pc \in {"s_count", "s_fraud", "s_sleep"}
        /\ ~Published(app.customer_id))
       => /\ Len(table) > 0
          /\ LastRow = Row(app, FALSE)
          /\ LastRow.kafka_sent = 0
          /\ outcome = "running"

\* a later cycle of a streaming run whose previous record failed to publish
\* and was inserted with kafka_sent = 0
C4_Witness ==
  /\ mode = "stream"
  /\ pc = "s_send"
  /\ applications_sent >= 1
  /\ Len(table) > 0
  /\ LastRow.kafka_sent = 0
  /\ ~Published(LastRow.customer_id)

\* C5: no two rows ever share a loan_id, and an insert of an existing
\* loan_id fails with a duplicate-key error and leaves the table as it was.
C5_LoanIdUnique ==
  [][ /\ UniqueLoanIds(table')
      /\ DuplicateInsert => (table' = table /\ error' = "IntegrityError") ]_vars

\* a streaming run stopped by the duplicate-key error, the table non-empty
C5_Witness ==
  /\ mode = "stream"
  /\ pc = "crashed"
  /\ error = "IntegrityError"
  /\ HasLoanId(table, app.loan_id)
  /\ ~Stored(app.customer_id)

\* C6: a duplicate-key failure of the insert propagates out of the run, and
\* after it nothing more is generated, published or inserted.
C6_DuplicateKeyHalts ==
  [][ /\ DuplicateInsert
        => (pc' = "crashed" /\ outcome' = "raised" /\ error' = "IntegrityError")
      /\ error = "IntegrityError" => UNCHANGED <<generated, bus, table>> ]_vars

\* a batch stopped by the duplicate-key error before its last record
C6_Witness ==
  /\ mode = "batch"
  /\ pc = "crashed"
  /\ error = "IntegrityError"
  /\ i + 1 < num_records

\* C7: when setup_kafka_producer fails, the run reports it, connects once,
\* and returns without generating, publishing or inserting anything.
C7_ConnectFailureAborts ==
  [][ (pc \in {"s_setup", "b_setup"}
         /\ "Failed to initialize Kafka producer" \in out')
        => /\ pc' = "menu"
           /\ outcome' = "aborted"
           /\ connects' = 1
           /\ (mode = "stream" => "Cannot start streaming" \in out')
           /\ app' = NoApp
           /\ polls' = 0
           /\ UNCHANGED <<table, bus, generated>> ]_vars

\* a streaming run aborted at startup over a store that already holds rows
C7_Witness ==
  /\ mode = "stream"
  /\ outcome = "aborted"
  /\ "Cannot start streaming" \in out
  /\ Len(table) > 0

\* C8: in a streaming run, every cancellation is followed by a flush before
\* control leaves generate_and_stream.
C8_FlushAfterCancellation ==
  (mode = "stream" /\ interrupted /\ pc \in {"menu", "crashed"})
    => flushes >= 1

\* C9: every application has application_timestamp = created_at = updated_at,
\* also when the clock advances between two reads.
C9_TimestampsEqual ==
  app # NoApp
    => /\ app.application_timestamp = app.created_at
       /\ app.created_at = app.updated_at

\* C10 as claimed: loan_amount lies within the exact rational bounds
\* [0.8, 2.5] x income (suspicious) and [0.1, 0.6] x income (normal).
C10_ExactBounds ==
  profile # NoProfile
    => IF profile.is_fraud = 1
       THEN /\ 8 * profile.annual_income <= 10 * profile.loan_amount
            /\ 10 * profile.loan_amount <= 25 * profile.annual_income
       ELSE /\ 1 * profile.annual_income <= 10 * profile.loan_amount
            /\ 10 * profile.loan_amount <= 6 * profile.annual_income

\* C10 as amended: the lower bound is the product truncated to an integer,
\* so loan_amount exceeds 0.8 x income - 1 (0.1 x income - 1 on the normal
\* branch) and stays at or below 2.5 x income (0.6 x income).
C10_TruncatedBounds ==
  profile # NoProfile
    => IF profile.is_fraud = 1
       THEN /\ 8 * profile.annual_income - 10 < 10 * profile.loan_amount
            /\ 10 * profile.loan_amount <= 25 * profile.annual_income
       ELSE /\ 1 * profile.annual_income - 10 < 10 * profile.loan_amount
            /\ 10 * profile.loan_amount <= 6 * profile.annual_income

\* a suspicious profile whose loan_amount is below 0.8 x income
C10_Witness ==
  /\ profile.is_fraud = 1
  /\ 10 * profile.loan_amount < 8 * profile.annual_income

\* the records generated by the run in progress
RunRecords ==
  {events[k].rec : k \in {j \in 1..Len(events) : events[j].op = "generate"}}

\* the store held no row when the run began
FreshStore == \A k \in 1..Len(table) : table[k].customer_id \in RunRecords

\* the run of either generator's batch has ended and no insert failed
BatchEnded ==
  /\ mode \in {"batch", "historical"}
  /\ pc \in {"menu", "crashed"}
  /\ outcome \in {"completed", "raised"}
  /\ error # "IntegrityError"

PublisherOps == {"produce", "poll", "flush"}

\* the calls made on the producer by the run in progress, in order
PublisherEvents == SelectSeq(events, LAMBDA e : e.op \in PublisherOps)

\* C12: in a batch run flush is called after every 100th record and once
\* after the loop: never more than 100 messages are enqueued since the last
\* flush, and the last call on the producer of a completed batch is a flush.
C12_FlushBoundsBacklog ==
  mode = "batch"
    => /\ unflushed <= FlushEvery
       /\ pc \in {"b_loop", "b_send", "b_store"}
            => (flushes = i \div FlushEvery /\ unflushed <= (i % FlushEvery) + 1)
       /\ pc = "b_finish" => flushes = num_records \div FlushEvery
       /\ outcome = "completed"
            => /\ flushes = num_records \div FlushEvery + 1
               /\ unflushed = 0
               /\ PublisherEvents # <<>>
               /\ PublisherEvents[Len(PublisherEvents)].op = "flush"

\* a completed backfill of more than two flush periods: three flushes
C12_Witness ==
  /\ mode = "batch"
  /\ outcome = "completed"
  /\ num_records = 2 * FlushEvery + LongExtra
  /\ flushes = 3
  /\ Len(bus) = num_records

CycleOps == {"generate", "produce", "insert"}

\* the place of an operation within the cycle of one record
Rank(op) == CASE op = "generate" -> 1
              [] op = "produce" -> 2
              [] op = "insert" -> 3
              [] OTHER -> 0

\* the cycles of the run neither overlap nor reorder: of two steps, the
\* earlier one belongs to an earlier record or is an earlier step of the
\* same record; an insert comes after the publish attempt of its record
CyclesInOrder ==
  /\ \A j, k \in 1..Len(events) :
       (j < k /\ events[j].op \in CycleOps /\ events[k].op \in CycleOps)
         => \/ events[j].rec < events[k].rec
            \/ /\ events[j].rec = events[k].rec
               /\ Rank(events[j].op) < Rank(events[k].op)
  /\ \A k \in 1..Len(events) :
       events[k].op = "insert"
         => \E j \in 1..(k - 1) :
              events[j].op = "produce" /\ events[j].rec = events[k].rec
  /\ \A k \in 1..Len(events) :
       events[k].op = "produce"
         => \E j \in 1..(k - 1) :
              events[j].op = "generate" /\ events[j].rec = events[k].rec

\* a poll is made only by send_to_kafka, right after its produce
PollOnlyAfterProduce ==
  \A k \in 1..Len(events) :
    events[k].op = "poll" => (k > 1 /\ events[k - 1].op = "produce")

\* C13 as claimed: the cycles run in strict sequence and every publish
\* attempt is followed by one pump before the record's insert.
C13_PumpAfterEveryPublish ==
  mode \in {"batch", "stream"}
    => /\ CyclesInOrder
       /\ PollOnlyAfterProduce
       /\ \A k \in 1..Len(events) :
            events[k].op = "produce"
              => (k < Len(events) /\ events[k + 1].op = "poll")

\* C13 as amended: the cycles run in strict sequence; a publish attempt that
\* was accepted is followed by one pump before the record's insert, and one
\* that raised is followed by no pump at all.
C13_SequentialCycles ==
  mode \in {"batch", "stream"}
    => /\ CyclesInOrder
       /\ PollOnlyAfterProduce
       /\ \A k \in 1..Len(events) :
            events[k].op = "produce"
              => IF events[k].ok
                 THEN k < Len(events) /\ events[k + 1].op = "poll"
                 ELSE k = Len(events) \/ events[k + 1].op # "poll"

\* a streaming run in its second cycle: the first publish raised, the second
\* was accepted and pumped, and both records are inserted
C13_Witness ==
  /\ mode = "stream"
  /\ pc = "s_count"
  /\ Len(table) >= 2
  /\ \E j, k \in 1..Len(events) :
       /\ j < k
       /\ events[j].op = "produce" /\ ~events[j].ok
       /\ events[k].op = "produce" /\ events[k].ok
       /\ events[Len(events)] = Event("insert", events[k].rec, TRUE)

\* C14: a persisted row is created once and never changes afterwards: no
\* step of the generator, the delivery callbacks served by poll and flush
\* included, alters or removes a row, whatever the broker reported.
C14_RowsImmutable ==
  [][ \A k \in 1..Len(table) :
        /\ Len(table') >= k
        /\ table'[k] = table[k] ]_vars

\* the callback of a stored record has reported a delivery failure and the
\* row still says kafka_sent = 1
C14_Witness ==
  \E k \in 1..Len(events), r \in 1..Len(table) :
    /\ events[k].op = "callback"
    /\ ~events[k].ok
    /\ table[r].customer_id = events[k].rec
    /\ table[r].kafka_sent = 1
    /\ \E j \in 1..(k - 1) : events[j] = Event("insert", events[k].rec, TRUE)

\* the rows the run in progress has inserted
RunRows == {k \in 1..Len(table) : table[k].customer_id \in RunRecords}

\* C15: when a streaming run is stopped by a cancellation, wherever it
\* arrived, applications_sent is the number of rows the run inserted and
\* fraud_detected the number of those rows with is_fraud = 1.
C15_CountersAgreeWithStore ==
  (mode = "stream" /\ interrupted)
    => /\ applications_sent = Cardinality(RunRows)
       /\ fraud_detected = Cardinality({k \in RunRows : table[k].is_fraud = 1})
       /\ fraud_detected <= applications_sent

\* C16: the inserts of one historical batch of the store-only generator are
\* all-or-nothing: the table changes only at the commit that follows the
\* generation of the whole batch, by all its rows at once, and a duplicate
\* loan_id in the batch leaves the table as it was, with no row of the batch.
C16_BatchAllOrNothing ==
  [][ mode' = "historical"
        => /\ table' # table
                => /\ pc = "h_commit"
                   /\ Len(applications) = num_records
                   /\ table' = table \o applications
           /\ (pc = "h_loop" /\ error' = "IntegrityError")
                => /\ table' = table
                   /\ pc' = "crashed"
                   /\ \A k \in 1..Len(table') :
                        \A j \in 1..Len(applications) :
                          table'[k].customer_id # applications[j].customer_id ]_vars

\* a historical batch stopped by a duplicate loan_id after at least one of
\* its rows had been inserted in the open transaction
C16_Witness ==
  /\ mode = "historical"
  /\ pc = "crashed"
  /\ error = "IntegrityError"
  /\ Len(txn) >= 1
  /\ Len(txn) < Len(applications)

====
